---- MODULE Spec2Model ----
(***************************************************************************)
(* A model of the employee management system of employees-refactored-v2.py *)
(* : the leave manager (EnhancedVacationManager over VacationPolicyManager *)
(* and Employee.reduce_vacation_days), the transaction ledger              *)
(* (TransactionLogger and its JSON resource), the pay run                  *)
(* (EnhancedPayrollService) and the application as wired by main().        *)
(*                                                                         *)
(* Money is counted in cents, percentages in percent, multipliers and      *)
(* performance ratings in hundredths, so that the float arithmetic of the  *)
(* source is integer arithmetic here (the inputs are chosen so that every  *)
(* division by 100 is exact).                                              *)
(***************************************************************************)
EXTENDS Integers, Sequences, FiniteSets, TLC

VARIABLES
    vacation_days,   \* Employee.vacation_days of every worker
    employees,       \* InMemoryEmployeeRepository._employees (in order)
    transactions,    \* TransactionLogger._transactions of every logger instance
    log_file,        \* the resource transaction_history.json
    policies,        \* PaymentPolicyManager._policies
    policy_keys,     \* the keys of _policies in the order the dict holds them
    policies_file,   \* the resource payment_policies.json
    clock,           \* what datetime.now() returns
    created,         \* history: every ledger entry created by this process
    answer,          \* what the last query returned
    last             \* the last operation: its arguments and its outcome

vars == <<vacation_days, employees, transactions, log_file, policies,
          policy_keys, policies_file, clock, created, answer, last>>

----------------------------------------------------------------------------
(* Bounds of the model *)

\* the most entries a ledger holds
MaxLedger == 2
\* balances are followed up to this value (a negative request raises one)
MaxBalance == 26
\* the most workers the repository of the application holds
MaxEmployees == 2
\* the significant decimal digits an amount is held to
FloatDigits == 5

----------------------------------------------------------------------------
(* AppConfig *)

DEFAULT_VACATION_DAYS == 25
DEFAULT_MONTHLY_SALARY == 500000
DEFAULT_HOURLY_RATE == 5000
DEFAULT_HOURS_WORKED == 10
SALARIED_BONUS_PERCENTAGE == 10
HOURLY_BONUS_AMOUNT == 10000
HOURLY_BONUS_THRESHOLD == 160

----------------------------------------------------------------------------
(* The workers: EmployeeRole, EmployeeType and the Employee dataclasses *)

EmployeeRole == {"intern", "manager", "vice_president"}
EmployeeType == {"salaried", "hourly", "freelancer"}

Workers == {"ana", "vic", "ines", "ivan", "fred", "hugo"}

\* the fields of each Employee object, other than its balance
Employee(w) ==
    CASE w = "ana"  -> [name |-> "Ana", role |-> "manager", type |-> "salaried",
                        performance_rating |-> 50, monthly_salary |-> 500000]
      [] w = "vic"  -> [name |-> "Vic", role |-> "vice_president", type |-> "hourly",
                        performance_rating |-> 100, hourly_rate |-> 5000,
                        hours_worked |-> 180, night_shift_hours |-> 2,
                        weekend_hours |-> 4, holiday_hours |-> 0]
      [] w = "ines" -> [name |-> "Ines", role |-> "intern", type |-> "salaried",
                        performance_rating |-> 100, monthly_salary |-> 300000]
      [] w = "ivan" -> [name |-> "Ivan", role |-> "intern", type |-> "freelancer",
                        performance_rating |-> 100,
                        projects |-> <<100000, 150000>>]
      [] w = "fred" -> [name |-> "Fred", role |-> "manager", type |-> "freelancer",
                        performance_rating |-> 50,
                        projects |-> <<100000, 150000>>]
      [] w = "hugo" -> [name |-> "Hugo", role |-> "intern", type |-> "hourly",
                        performance_rating |-> 100, hourly_rate |-> 3000,
                        hours_worked |-> 180, night_shift_hours |-> 0,
                        weekend_hours |-> 0, holiday_hours |-> 0]
      [] w = "otto" -> [name |-> "Otto", role |-> "manager", type |-> "employee",
                        performance_rating |-> 100]

\* the balance a worker is constructed with where the leave manager is
\* driven directly (the factories of the application leave the default)
InitialVacationDays(w) ==
    CASE w = "ana" -> 15
      [] w = "vic" -> 10
      [] OTHER -> DEFAULT_VACATION_DAYS

\* the days a request may ask for
DaysValues == {-1, 3, 5, 6, 10}

\* a number of days above every balance the model follows
Overdraft == {36}

----------------------------------------------------------------------------
(* VacationPolicy and VacationPolicyManager *)

VacationPolicies ==
    [intern |-> [role |-> "intern", base_vacation_days |-> 0,
                 max_vacation_days |-> 0, payout_allowed |-> FALSE,
                 payout_days_limit |-> 0, carry_over_limit |-> 0,
                 seniority_bonus_days |-> 0],
     manager |-> [role |-> "manager", base_vacation_days |-> 25,
                  max_vacation_days |-> 35, payout_allowed |-> TRUE,
                  payout_days_limit |-> 10, carry_over_limit |-> 15,
                  seniority_bonus_days |-> 2],
     vice_president |-> [role |-> "vice_president", base_vacation_days |-> 30,
                         max_vacation_days |-> 5, payout_allowed |-> TRUE,
                         payout_days_limit |-> 5, carry_over_limit |-> 20,
                         seniority_bonus_days |-> 3]]

\* VacationPolicyManager.get_policy: a role with no policy gets the intern's
GetVacationPolicy(role) ==
    IF role \in DOMAIN VacationPolicies THEN VacationPolicies[role]
    ELSE VacationPolicies["intern"]

\* the per-request maximum is not looked at
can_take_vacation_no_max(w, balance, days) == balance >= days

can_take_vacation(w, balance, days) ==
    LET policy == GetVacationPolicy(Employee(w).role)
    IN  balance >= days /\ days <= policy.max_vacation_days

\* the payout-day cap is not looked at
can_payout_vacation_no_limit(w, balance, days) ==
    GetVacationPolicy(Employee(w).role).payout_allowed /\ balance >= days

can_payout_vacation(w, balance, days) ==
    LET policy == GetVacationPolicy(Employee(w).role)
    IN  /\ policy.payout_allowed
        /\ balance >= days
        /\ days <= policy.payout_days_limit

\* the balance is not compared with the days
reduce_vacation_days_unchecked(balance, days) ==
    [result |-> "ok", balance |-> balance - days]

\* Employee.reduce_vacation_days: the balance after, or the error raised
reduce_vacation_days(balance, days) ==
    IF balance < days
    THEN [result |-> "error", balance |-> balance]
    ELSE [result |-> "ok", balance |-> balance - days]

----------------------------------------------------------------------------
(* TransactionLogger *)

\* the logger instances main() builds: the one handed to the
\* EnhancedVacationManager and the one EmployeeManagementApp builds for itself
Loggers == {"vacation_manager", "app"}

\* the readings of the clock: two are enough for entries of one timestamp
\* and for a clock that is set back
Timestamps == {0, 1}

\* how a write of the resource may end: written, open() raised (the resource
\* is left as it was), or the write raised half way (a truncated document)
WriteOutcomes == {"ok", "open_failed", "write_failed"}

NoFile == [state |-> "absent", data |-> <<>>]

\* what a reader of the resource finds in it
PersistedEntries(file) == IF file.state = "ok" THEN file.data ELSE <<>>

\* TransactionLogger._load_transactions: txs is the list before the load, and
\* read_ok is whether open() and json.load() raise nothing on a readable file
load_transactions(txs, file, read_ok) ==
    IF file.state # "absent"
    THEN IF read_ok /\ file.state = "ok" THEN file.data ELSE <<>>
    ELSE txs

\* TransactionLogger._save_transactions: the resource after the save
save_transactions(file, txs, wr) ==
    CASE wr = "ok" -> [state |-> "ok", data |-> txs]
      [] wr = "open_failed" -> file
      [] wr = "write_failed" -> [state |-> "malformed", data |-> <<>>]

\* what the caller of log_vacation or log_payment gets back: the except
\* clause of _save_transactions catches every Exception and prints it, and
\* log_* returns None, whatever the save did
log_result(wr) == "ok"

\* the balance before the deduction is recorded as the remaining one
VacationEntry_before(w, days, payout, remaining_days, description, now) ==
    [timestamp |-> now,
     employee_name |-> Employee(w).name,
     employee_role |-> Employee(w).role,
     transaction_type |-> "vacation",
     days_taken |-> days,
     payout |-> payout,
     remaining_days |-> remaining_days + days,
     description |-> IF description # <<>> THEN description
                     ELSE <<IF payout THEN "Payout" ELSE "Vacation", days>>]

VacationEntry(w, days, payout, remaining_days, description, now) ==
    [timestamp |-> now,
     employee_name |-> Employee(w).name,
     employee_role |-> Employee(w).role,
     transaction_type |-> "vacation",
     days_taken |-> days,
     payout |-> payout,
     remaining_days |-> remaining_days,
     description |-> IF description # <<>> THEN description
                     ELSE <<IF payout THEN "Payout" ELSE "Vacation", days>>]

PaymentEntry(w, total_amount, base_pay, bonuses, overtime, special_hours, performance_bonus, now) ==
    [timestamp |-> now,
     employee_name |-> Employee(w).name,
     employee_role |-> Employee(w).role,
     transaction_type |-> "payment",
     amount |-> total_amount,
     base_pay |-> base_pay,
     bonuses |-> bonuses,
     overtime |-> overtime,
     special_hours |-> special_hours,
     performance_bonus |-> performance_bonus,
     description |-> <<"Payment", total_amount>>]

\* TransactionLogger.log_vacation and log_payment: the in-memory list after
log_vacation(txs, w, days, payout, remaining_days, description, now) ==
    Append(txs, VacationEntry(w, days, payout, remaining_days, description, now))

\* the new entry is put in front of the list
log_payment_in_front(txs, w, total_amount, base_pay, bonuses, overtime, special_hours, performance_bonus, now) ==
    <<PaymentEntry(w, total_amount, base_pay, bonuses, overtime,
                   special_hours, performance_bonus, now)>> \o txs

log_payment(txs, w, total_amount, base_pay, bonuses, overtime, special_hours, performance_bonus, now) ==
    Append(txs, PaymentEntry(w, total_amount, base_pay, bonuses, overtime,
                             special_hours, performance_bonus, now))

\* one step of a stable sort by timestamp, newest first: x goes behind
\* every entry that is as new as x or newer
InsertByTimestamp(sorted, x) ==
    LET k == Cardinality({j \in 1..Len(sorted) :
                            sorted[j].timestamp >= x.timestamp})
    IN  SubSeq(sorted, 1, k) \o <<x>> \o SubSeq(sorted, k + 1, Len(sorted))

\* sorted(txs, key=timestamp, reverse=True): Python's sort is stable, also
\* with reverse=True, so entries of one timestamp keep their order
RECURSIVE SortedNewestFirst(_)
SortedNewestFirst(txs) ==
    IF txs = <<>> THEN <<>>
    ELSE InsertByTimestamp(SortedNewestFirst(SubSeq(txs, 1, Len(txs) - 1)),
                           txs[Len(txs)])

\* seq[:limit] for limit >= 0
Take(seq, limit) == SubSeq(seq, 1, IF limit < Len(seq) THEN limit ELSE Len(seq))

\* the worker's entries are sorted newest first
get_employee_history_newest_first(txs, employee_name) ==
    LET keep(t) == t.employee_name = employee_name
    IN  SortedNewestFirst(SelectSeq(txs, keep))

get_employee_history(txs, employee_name) ==
    LET keep(t) == t.employee_name = employee_name IN SelectSeq(txs, keep)

get_recent_transactions(txs, limit) == Take(SortedNewestFirst(txs), limit)

get_transactions_by_type(txs, transaction_type) ==
    LET keep(t) == t.transaction_type = transaction_type IN SelectSeq(txs, keep)

----------------------------------------------------------------------------
(* PaymentPolicy and PaymentPolicyManager *)

PaymentPolicy(type, rate, overtime, bonus, hours, holiday, weekend, night, threshold, percentage) ==
    [employee_type |-> type, base_rate |-> rate,
     overtime_multiplier |-> overtime, bonus_percentage |-> bonus,
     max_hours_per_week |-> hours, holiday_pay_multiplier |-> holiday,
     weekend_pay_multiplier |-> weekend, night_shift_bonus |-> night,
     performance_bonus_threshold |-> threshold,
     performance_bonus_percentage |-> percentage]

\* PaymentPolicyManager._create_default_policies
DefaultPolicies ==
    [salaried |-> PaymentPolicy("salaried", DEFAULT_MONTHLY_SALARY, 150,
                                SALARIED_BONUS_PERCENTAGE, 40, 100, 100, 0,
                                80, 5),
     hourly |-> PaymentPolicy("hourly", DEFAULT_HOURLY_RATE, 150, 0, 40, 100,
                              125, 200, 0, 0),
     freelancer |-> PaymentPolicy("freelancer", 0, 150, 15, 40, 100, 100, 0,
                                  90, 10)]

\* the order in which _create_default_policies lists the default policies
DefaultKeys == <<"salaried", "hourly", "freelancer">>

\* the ten fields of a PaymentPolicy
PolicyFields ==
    {"employee_type", "base_rate", "overtime_multiplier", "bonus_percentage",
     "max_hours_per_week", "holiday_pay_multiplier", "weekend_pay_multiplier",
     "night_shift_bonus", "performance_bonus_threshold",
     "performance_bonus_percentage"}

\* payment_policies.json does not exist
NoPoliciesFile == [state |-> "absent", data |-> <<>>]

\* the dict _save_policies and _save_default_policies write for a policy
PolicyData(policy) == [f \in PolicyFields |-> policy[f]]

\* _save_policies and _save_default_policies: the resource after the save.
\* The list holds one dict per value of _policies, in the order of the dict;
\* an exception is caught and printed
save_policies(file, pols, keys, wr) ==
    CASE wr = "ok" ->
           [state |-> "ok",
            data |-> [i \in 1..Len(keys) |-> PolicyData(pols[keys[i]])]]
      [] wr = "open_failed" -> file
      [] wr = "write_failed" -> [state |-> "malformed", data |-> <<>>]

\* a key without a policy is answered with the salaried policy
get_policy_or_default(pols, employee_type) ==
    IF employee_type \in DOMAIN pols
    THEN [result |-> "ok", policy |-> pols[employee_type]]
    ELSE [result |-> "ok", policy |-> DefaultPolicies.salaried]

\* PaymentPolicyManager.get_policy: the policy, or the ValueError raised
get_policy(pols, employee_type) ==
    IF employee_type \in DOMAIN pols
    THEN [result |-> "ok", policy |-> pols[employee_type]]
    ELSE [result |-> "error"]

----------------------------------------------------------------------------
(* EnhancedPayrollService *)

Min(a, b) == IF a < b THEN a ELSE b
Max(a, b) == IF a > b THEN a ELSE b

\* Amounts are floats in the program. The model keeps them in cents, to
\* FloatDigits significant decimal digits and no finer than a cent: the
\* result of every operation is rounded to the nearest such value, ties to
\* the even one, as a float operation rounds to the nearest float.
RECURSIVE Digits(_)
Digits(x) == IF x < 10 THEN 1 ELSE 1 + Digits(x \div 10)

RECURSIVE Pow10(_)
Pow10(n) == IF n = 0 THEN 1 ELSE 10 * Pow10(n - 1)

\* the distance between two neighbouring amounts around x
Quantum(x) == Pow10(Max(0, Digits(x) - FloatDigits))

\* the multiple of m nearest to n, the even one of two that are as near
RoundTo(n, m) ==
    LET r == n % m
        low == n - r
    IN  IF 2 * r < m THEN low
        ELSE IF 2 * r > m THEN low + m
        ELSE IF (low \div m) % 2 = 0 THEN low ELSE low + m

fl(x) == RoundTo(x, Quantum(x))

\* a + b and a * b on floats
Add(a, b) == fl(a + b)
Times(a, b) == fl(a * b)

\* amount * (percentage / 100), and amount * multiplier for a multiplier in
\* hundredths
Percent(amount, percentage) ==
    LET n == amount * percentage
    IN  RoundTo(n, 100 * Quantum(n \div 100)) \div 100

\* sum(values) over the first n values, from 0 and from the left
RECURSIVE SumTo(_, _)
SumTo(seq, n) == IF n = 0 THEN 0 ELSE Add(SumTo(seq, n - 1), seq[n])

Sum(seq) == SumTo(seq, Len(seq))

\* the flat 10% goes to interns as well
SalariedPay_interns_too(emp, policy) ==
    LET base_pay == emp.monthly_salary
        performance_bonus == Percent(base_pay, SALARIED_BONUS_PERCENTAGE)
        extra_performance_bonus ==
            IF emp.performance_rating >= policy.performance_bonus_threshold
            THEN Percent(base_pay, policy.performance_bonus_percentage) ELSE 0
        regular_bonus == Percent(base_pay, policy.bonus_percentage)
    IN  Add(Add(Add(base_pay, performance_bonus), extra_performance_bonus),
            regular_bonus)

\* SalariedPayrollCalculator.calculate_pay
SalariedPay(emp, policy) ==
    LET base_pay == emp.monthly_salary
        performance_bonus ==
            IF emp.role # "intern"
            THEN Percent(base_pay, SALARIED_BONUS_PERCENTAGE) ELSE 0
        extra_performance_bonus ==
            IF emp.performance_rating >= policy.performance_bonus_threshold
            THEN Percent(base_pay, policy.performance_bonus_percentage) ELSE 0
        regular_bonus == Percent(base_pay, policy.bonus_percentage)
    IN  Add(Add(Add(base_pay, performance_bonus), extra_performance_bonus),
            regular_bonus)

\* the flat bonus is paid from the threshold on
HourlyPay_bonus_at_threshold(emp, policy) ==
    LET regular_hours == Min(emp.hours_worked, policy.max_hours_per_week)
        overtime_hours ==
            Max(0, emp.hours_worked - policy.max_hours_per_week)
        base_pay == Times(regular_hours, emp.hourly_rate)
        overtime_pay ==
            Percent(Times(overtime_hours, emp.hourly_rate),
                    policy.overtime_multiplier)
        performance_bonus ==
            IF emp.role # "intern"
               /\ emp.hours_worked >= HOURLY_BONUS_THRESHOLD
            THEN HOURLY_BONUS_AMOUNT ELSE 0
        weekend_pay ==
            Percent(Times(emp.weekend_hours, emp.hourly_rate),
                    policy.weekend_pay_multiplier)
        holiday_pay ==
            Percent(Times(emp.holiday_hours, emp.hourly_rate),
                    policy.holiday_pay_multiplier)
        night_shift_pay == Times(emp.night_shift_hours, policy.night_shift_bonus)
    IN  Add(Add(Add(Add(Add(base_pay, overtime_pay), performance_bonus),
                    weekend_pay), holiday_pay), night_shift_pay)

\* HourlyPayrollCalculator.calculate_pay
HourlyPay(emp, policy) ==
    LET regular_hours == Min(emp.hours_worked, policy.max_hours_per_week)
        overtime_hours ==
            Max(0, emp.hours_worked - policy.max_hours_per_week)
        base_pay == Times(regular_hours, emp.hourly_rate)
        overtime_pay ==
            Percent(Times(overtime_hours, emp.hourly_rate),
                    policy.overtime_multiplier)
        performance_bonus ==
            IF emp.role # "intern"
               /\ emp.hours_worked > HOURLY_BONUS_THRESHOLD
            THEN HOURLY_BONUS_AMOUNT ELSE 0
        weekend_pay ==
            Percent(Times(emp.weekend_hours, emp.hourly_rate),
                    policy.weekend_pay_multiplier)
        holiday_pay ==
            Percent(Times(emp.holiday_hours, emp.hourly_rate),
                    policy.holiday_pay_multiplier)
        night_shift_pay == Times(emp.night_shift_hours, policy.night_shift_bonus)
    IN  Add(Add(Add(Add(Add(base_pay, overtime_pay), performance_bonus),
                    weekend_pay), holiday_pay), night_shift_pay)

\* the performance bonus is paid whatever the rating
FreelancerPay_any_rating(emp, policy) ==
    LET base_pay == Sum(emp.projects)
        performance_bonus ==
            Percent(base_pay, policy.performance_bonus_percentage)
        regular_bonus == Percent(base_pay, policy.bonus_percentage)
    IN  Add(Add(base_pay, performance_bonus), regular_bonus)

\* FreelancerPayrollCalculator.calculate_pay
FreelancerPay(emp, policy) ==
    LET base_pay == Sum(emp.projects)
        performance_bonus ==
            IF emp.performance_rating >= policy.performance_bonus_threshold
            THEN Percent(base_pay, policy.performance_bonus_percentage) ELSE 0
        regular_bonus == Percent(base_pay, policy.bonus_percentage)
    IN  Add(Add(base_pay, performance_bonus), regular_bonus)

\* the types _setup_calculators registers a calculator for
RegisteredTypes == {"salaried", "hourly", "freelancer"}

\* PayrollCalculatorRegistry.calculate_pay: the amount, or the ValueError of
\* get_calculator or of the calculator's get_policy
registry_calculate_pay(emp, pols) ==
    IF emp.type \notin RegisteredTypes
    THEN [result |-> "error", error |-> "no calculator"]
    ELSE LET got == get_policy(pols, emp.type)
         IN  IF got.result # "ok"
             THEN [result |-> "error", error |-> "no policy"]
             ELSE [result |-> "ok",
                   amount |->
                     CASE emp.type = "salaried" -> SalariedPay(emp, got.policy)
                       [] emp.type = "hourly" -> HourlyPay(emp, got.policy)
                       [] emp.type = "freelancer" ->
                            FreelancerPay(emp, got.policy)]

\* a pay breakdown with the defaults the pay run reads for a missing key
Breakdown(total, base_pay, bonuses, overtime, special_hours, performance_bonus) ==
    [result |-> "ok", total |-> total, base_pay |-> base_pay,
     bonuses |-> bonuses, overtime |-> overtime,
     special_hours |-> special_hours,
     performance_bonus |-> performance_bonus]

DetailedSalariedPay(emp, policy) ==
    LET base_pay == emp.monthly_salary
        performance_bonus ==
            IF emp.role # "intern"
            THEN Percent(base_pay, SALARIED_BONUS_PERCENTAGE) ELSE 0
        extra_performance_bonus ==
            IF emp.performance_rating >= policy.performance_bonus_threshold
            THEN Percent(base_pay, policy.performance_bonus_percentage) ELSE 0
        regular_bonus == Percent(base_pay, policy.bonus_percentage)
        total_bonuses ==
            Add(Add(performance_bonus, extra_performance_bonus), regular_bonus)
    IN  Breakdown(Add(base_pay, total_bonuses), base_pay, total_bonuses, 0, 0,
                  Add(performance_bonus, extra_performance_bonus))

DetailedHourlyPay(emp, policy) ==
    LET regular_hours == Min(emp.hours_worked, policy.max_hours_per_week)
        overtime_hours ==
            Max(0, emp.hours_worked - policy.max_hours_per_week)
        base_pay == Times(regular_hours, emp.hourly_rate)
        overtime_pay ==
            Percent(Times(overtime_hours, emp.hourly_rate),
                    policy.overtime_multiplier)
        performance_bonus ==
            IF emp.role # "intern" /\ emp.hours_worked > HOURLY_BONUS_THRESHOLD
            THEN HOURLY_BONUS_AMOUNT ELSE 0
        weekend_pay ==
            Percent(Times(emp.weekend_hours, emp.hourly_rate),
                    policy.weekend_pay_multiplier)
        holiday_pay ==
            Percent(Times(emp.holiday_hours, emp.hourly_rate),
                    policy.holiday_pay_multiplier)
        night_shift_pay == Times(emp.night_shift_hours, policy.night_shift_bonus)
        special_hours_total ==
            Add(Add(weekend_pay, holiday_pay), night_shift_pay)
    IN  Breakdown(Add(Add(Add(base_pay, overtime_pay), performance_bonus),
                      special_hours_total),
                  base_pay, performance_bonus, overtime_pay,
                  special_hours_total, performance_bonus)

DetailedFreelancerPay(emp, policy) ==
    LET base_pay == Sum(emp.projects)
        performance_bonus ==
            IF emp.performance_rating >= policy.performance_bonus_threshold
            THEN Percent(base_pay, policy.performance_bonus_percentage) ELSE 0
        regular_bonus == Percent(base_pay, policy.bonus_percentage)
        total_bonuses == Add(performance_bonus, regular_bonus)
    IN  Breakdown(Add(base_pay, total_bonuses), base_pay, total_bonuses, 0, 0,
                  performance_bonus)

\* EnhancedPayrollService._calculate_detailed_pay: the breakdown, or the
\* error get_policy raises; an employee that is none of the three classes
\* gets the breakdown of zeros of the last line
calculate_detailed_pay(emp, pols) ==
    IF emp.type \notin {"salaried", "hourly", "freelancer"}
    THEN Breakdown(0, 0, 0, 0, 0, 0)
    ELSE LET got == get_policy(pols, emp.type)
         IN  IF got.result # "ok" THEN [result |-> "error"]
             ELSE CASE emp.type = "salaried" ->
                         DetailedSalariedPay(emp, got.policy)
                    [] emp.type = "hourly" ->
                         DetailedHourlyPay(emp, got.policy)
                    [] emp.type = "freelancer" ->
                         DetailedFreelancerPay(emp, got.policy)

\* a worker whose calculation fails is passed over without a message
PayOne_unreported(run, w, pols, now, wr) ==
    LET pay == calculate_detailed_pay(Employee(w), pols)
        txs == log_payment(run.txs, w, pay.total, pay.base_pay, pay.bonuses,
                           pay.overtime, pay.special_hours,
                           pay.performance_bonus, now)
    IN  IF pay.result = "ok"
        THEN [txs |-> txs,
              file |-> save_transactions(run.file, txs, wr),
              total_payroll |-> Add(run.total_payroll, pay.total),
              shown |-> Append(run.shown,
                               <<"Paying", Employee(w).name, pay.total>>)]
        ELSE run

\* one turn of the loop of pay_all_employees, for worker w: run is the
\* ledger, the resource, the payroll total and the messages so far
PayOne(run, w, pols, now, wr) ==
    LET pay == calculate_detailed_pay(Employee(w), pols)
        txs == log_payment(run.txs, w, pay.total, pay.base_pay, pay.bonuses,
                           pay.overtime, pay.special_hours,
                           pay.performance_bonus, now)
    IN  IF pay.result = "ok"
        THEN [txs |-> txs,
              file |-> save_transactions(run.file, txs, wr),
              total_payroll |-> Add(run.total_payroll, pay.total),
              shown |-> Append(run.shown,
                               <<"Paying", Employee(w).name, pay.total>>)]
        ELSE [run EXCEPT !.shown =
                Append(run.shown, <<"Error paying", Employee(w).name>>)]

\* the loop of pay_all_employees over the first n workers of emps
RECURSIVE PayLoop(_, _, _, _, _, _)
PayLoop(run, emps, n, pols, now, wr) ==
    IF n = 0 THEN run
    ELSE PayOne(PayLoop(run, emps, n - 1, pols, now, wr), emps[n], pols,
                now, wr)

----------------------------------------------------------------------------
(* EnhancedVacationManager.take_vacation *)

\* the freelancer test is missing
IsFreelancer_never(w) == FALSE

IsFreelancer(w) == Employee(w).type = "freelancer"

\* the intern test is missing
IsIntern_never(w) == FALSE

IsIntern(w) == Employee(w).role = "intern"

\* the validation of a request that is neither a freelancer's nor an intern's
RequestAllowed(w, payout, balance, days) ==
    IF payout THEN can_payout_vacation(w, balance, days)
    ELSE can_take_vacation(w, balance, days)

\* the outcome of take_vacation(employee, payout, days) on a balance:
\* "rejected" is the message printed to a freelancer (nothing is raised),
\* "error" a raised ValueError, "ok" the deduction made
take_vacation(w, payout, days, balance) ==
    IF IsFreelancer(w) THEN [result |-> "rejected", balance |-> balance]
    ELSE IF IsIntern(w) THEN [result |-> "error", balance |-> balance]
    ELSE IF ~RequestAllowed(w, payout, balance, days)
         THEN [result |-> "error", balance |-> balance]
         ELSE reduce_vacation_days(balance, days)

TakeVacationDescription(w, payout) ==
    <<IF payout THEN "Payout for" ELSE "Vacation for", Employee(w).role>>

\* the record of an operation kept in last
Op(op, w, payout, days, result, before, len_before, wrote) ==
    [op |-> op, w |-> w, payout |-> payout, days |-> days, result |-> result,
     before |-> before, len_before |-> len_before, wrote |-> wrote]

\* no operation is in progress: the caller is ready to start one
Idle == Op("idle", "ana", FALSE, 0, "none", 0, 0, "none")

\* take_vacation through the manager whose ledger is logger lg
TakeVacation(lg, w, payout, days, wr) ==
    LET out == take_vacation(w, payout, days, vacation_days[w])
        txs == log_vacation(transactions[lg], w, days, payout, out.balance,
                            TakeVacationDescription(w, payout), clock)
    IN  /\ last = Idle
        /\ out.balance <= MaxBalance
        /\ out.result = "ok" => Len(transactions[lg]) < MaxLedger
        /\ vacation_days' = [vacation_days EXCEPT ![w] = out.balance]
        /\ IF out.result = "ok"
           THEN /\ transactions' = [transactions EXCEPT ![lg] = txs]
                /\ log_file' = save_transactions(log_file, txs, wr)
                /\ created' = Append(created, txs[Len(txs)])
           ELSE /\ wr = "ok"
                /\ UNCHANGED <<transactions, log_file, created>>
        /\ last' = Op("take_vacation", w, payout, days, out.result,
                      vacation_days[w], Len(transactions[lg]),
                      IF out.result = "ok" THEN wr ELSE "none")
        /\ UNCHANGED <<employees, policies, policy_keys, policies_file, clock, answer>>

\* Employee.reduce_vacation_days called on a worker directly
ReduceVacationDays(w, days) ==
    LET out == reduce_vacation_days(vacation_days[w], days)
    IN  /\ last = Idle
        /\ out.balance <= MaxBalance
        /\ vacation_days' = [vacation_days EXCEPT ![w] = out.balance]
        /\ last' = Op("reduce_vacation_days", w, FALSE, days, out.result,
                      vacation_days[w], 0, "none")
        /\ UNCHANGED <<employees, transactions, log_file, policies, policy_keys, policies_file, clock,
                       created, answer>>

\* the caller has taken the outcome of the operation (the command shows the
\* error, the menu loop waits for Enter) and is ready for the next one
Continue ==
    /\ last # Idle
    /\ last' = Idle
    /\ answer' = <<>>
    /\ UNCHANGED <<vacation_days, employees, transactions, log_file, policies, policy_keys, policies_file,
                   clock, created>>

\* the clock moves: datetime.now() is the local wall clock, which may stand
\* still between two calls and may be set back
Tick(t) ==
    /\ last = Idle
    /\ t # clock
    /\ clock' = t
    /\ UNCHANGED <<vacation_days, employees, transactions, log_file, policies, policy_keys, policies_file,
                   created, answer, last>>

----------------------------------------------------------------------------
(* The leave manager driven directly, as by the tests: workers constructed   *)
(* with their balances, one EnhancedVacationManager and its ledger.          *)

InitLeave ==
    /\ vacation_days = [w \in Workers |-> InitialVacationDays(w)]
    /\ employees = <<>>
    /\ transactions = [lg \in Loggers |-> <<>>]
    /\ log_file = NoFile
    /\ policies = <<>>
    /\ policy_keys = <<>>
    /\ policies_file = NoPoliciesFile
    /\ clock = 0
    /\ created = <<>>
    /\ answer = <<>>
    /\ last = Idle

NextLeave ==
    \/ \E w \in Workers, payout \in BOOLEAN, days \in DaysValues,
          wr \in {"ok", "write_failed"} :
            TakeVacation("vacation_manager", w, payout, days, wr)
    \/ \E w \in Workers, days \in Overdraft : ReduceVacationDays(w, days)
    \/ Continue

SpecLeave == InitLeave /\ [][NextLeave]_vars

----------------------------------------------------------------------------
(* Claims about the leave manager, checked under SpecLeave *)

\* the worker of the last operation, as constructed
LastRole == Employee(last.w).role
LastType == Employee(last.w).type
LastPolicy == VacationPolicies[LastRole]
LastLedger == transactions["vacation_manager"]

\* the last operation left the balance and the ledger as they were
LastChangedNothing ==
    /\ vacation_days[last.w] = last.before
    /\ Len(LastLedger) = last.len_before

\* C1: no balance is ever negative, and a deduction of more days than the
\* balance (reduce_vacation_days itself, or a take_vacation request that
\* reaches the leave rules) raises an error and leaves the balance as it
\* was; a freelancer's request is refused before any deduction is tried
C1_BalanceNeverNegative ==
    /\ \A w \in Workers : vacation_days[w] >= 0
    /\ (last.op \in {"take_vacation", "reduce_vacation_days"}
            /\ last.days > last.before)
        => /\ vacation_days[last.w] = last.before
           /\ last.result # "ok"
           /\ (last.op = "reduce_vacation_days" \/ LastType # "freelancer")
                => last.result = "error"

\* a manager who already spent leave asks for more than is left
C1_Witness ==
    /\ last.op = "take_vacation"
    /\ LastRole = "manager" /\ LastType = "salaried"
    /\ Len(LastLedger) > 0
    /\ last.days > last.before
    /\ last.days <= LastPolicy.max_vacation_days
    /\ last.result = "error"

C3_FreelancerRejected ==
    (last.op = "take_vacation" /\ LastType = "freelancer")
        => last.result = "rejected" /\ LastChangedNothing

\* a freelancer manager asks for days a manager would get
C3_Witness ==
    /\ last.op = "take_vacation"
    /\ LastType = "freelancer" /\ LastRole = "manager"
    /\ last.days > 0 /\ last.days <= last.before
    /\ last.days <= LastPolicy.max_vacation_days
    /\ last.result = "rejected"

\* a request the leave rules decide: neither a freelancer's nor an intern's
LastDecidedByPolicy ==
    /\ last.op = "take_vacation"
    /\ LastType # "freelancer"
    /\ LastRole # "intern"

\* C4: a payout request fails with an error, changing nothing, when the
\* policy forbids payout or the days exceed the payout cap or the balance,
\* and succeeds otherwise
C4_PayoutRules ==
    (LastDecidedByPolicy /\ last.payout)
        => IF \/ ~LastPolicy.payout_allowed
              \/ last.days > LastPolicy.payout_days_limit
              \/ last.days > last.before
           THEN last.result = "error" /\ LastChangedNothing
           ELSE last.result = "ok"

\* a payout above the cap that the balance would cover
C4_Witness ==
    /\ LastDecidedByPolicy /\ last.payout
    /\ last.days > LastPolicy.payout_days_limit
    /\ last.days <= last.before
    /\ last.result = "error"

\* C5: a time-off request fails with an error, changing nothing, when the
\* days exceed the role's max_vacation_days or the balance, and succeeds
\* otherwise
C5_TimeOffRules ==
    (LastDecidedByPolicy /\ ~last.payout)
        => IF \/ last.days > LastPolicy.max_vacation_days
              \/ last.days > last.before
           THEN last.result = "error" /\ LastChangedNothing
           ELSE last.result = "ok"

\* a vice president with balance 10 asks for 10 days
C5_Witness ==
    /\ LastDecidedByPolicy /\ ~last.payout
    /\ LastRole = "vice_president"
    /\ last.before = 10 /\ last.days = 10
    /\ last.result = "error"

\* C6: a successful request deducts exactly the days and appends exactly
\* one leave entry with the days, the payout flag and the balance after
C6_SuccessDeductsAndLogs ==
    (last.op = "take_vacation" /\ last.result = "ok")
        => /\ vacation_days[last.w] = last.before - last.days
           /\ Len(LastLedger) = last.len_before + 1
           /\ LET e == LastLedger[Len(LastLedger)]
              IN  /\ e.transaction_type = "vacation"
                  /\ e.employee_name = Employee(last.w).name
                  /\ e.days_taken = last.days
                  /\ e.payout = last.payout
                  /\ e.remaining_days = vacation_days[last.w]

\* a manager with balance 15 is paid out 10 days
C6_Witness ==
    /\ last.op = "take_vacation" /\ last.result = "ok"
    /\ LastRole = "manager" /\ last.before = 15
    /\ last.payout /\ last.days = 10
    /\ vacation_days[last.w] = 5
    /\ LastLedger[Len(LastLedger)].payout

----------------------------------------------------------------------------
(* One TransactionLogger used through its own interface, as by               *)
(* test_transaction_history, with restarts: a new TransactionLogger that     *)
(* loads the resource the previous one wrote.                                *)

\* the arguments of the log calls
LedgerWorkers == {"ana", "vic"}
PaidWorkers == {"ana"}
LoggedLeave == [days |-> 5, remaining_days |-> 20]
LoggedPay == [total_amount |-> 550000, base_pay |-> 500000, bonuses |-> 50000,
              overtime |-> 0, special_hours |-> 0, performance_bonus |-> 50000]

\* the arguments of the queries
RecentLimits == {1, 2, 10}
HistoryNames == {"Ana", "Zoe"}
TransactionTypes == {"vacation", "payment"}

LedgerOp(op, w, wrote) ==
    Op(op, w, FALSE, 0, "ok", 0, Len(transactions["app"]), wrote)

LogVacation(w, wr) ==
    LET txs == log_vacation(transactions["app"], w, LoggedLeave.days, FALSE,
                            LoggedLeave.remaining_days, <<>>, clock)
    IN  /\ last = Idle
        /\ Len(transactions["app"]) < MaxLedger
        /\ transactions' = [transactions EXCEPT !["app"] = txs]
        /\ log_file' = save_transactions(log_file, txs, wr)
        /\ last' = [LedgerOp("log_vacation", w, wr) EXCEPT
                        !.result = log_result(wr)]
        /\ UNCHANGED <<vacation_days, employees, policies, policy_keys, policies_file, clock, created,
                       answer>>

LogPayment(w, wr) ==
    LET txs == log_payment(transactions["app"], w, LoggedPay.total_amount,
                           LoggedPay.base_pay, LoggedPay.bonuses,
                           LoggedPay.overtime, LoggedPay.special_hours,
                           LoggedPay.performance_bonus, clock)
    IN  /\ last = Idle
        /\ Len(transactions["app"]) < MaxLedger
        /\ transactions' = [transactions EXCEPT !["app"] = txs]
        /\ log_file' = save_transactions(log_file, txs, wr)
        /\ last' = [LedgerOp("log_payment", w, wr) EXCEPT
                        !.result = log_result(wr)]
        /\ UNCHANGED <<vacation_days, employees, policies, policy_keys, policies_file, clock, created,
                       answer>>

\* a query: its argument is kept in last and the list it returns in answer
Query(op, name, limit, result) ==
    /\ last = Idle
    /\ answer' = result
    /\ last' = Op(op, name, FALSE, limit, "ok", 0, Len(transactions["app"]),
                  "none")
    /\ UNCHANGED <<vacation_days, employees, transactions, log_file, policies, policy_keys, policies_file,
                   clock, created>>

GetRecentTransactions(limit) ==
    Query("get_recent_transactions", "", limit,
          get_recent_transactions(transactions["app"], limit))

GetEmployeeHistory(name) ==
    Query("get_employee_history", name, 0,
          get_employee_history(transactions["app"], name))

GetTransactionsByType(type) ==
    Query("get_transactions_by_type", type, 0,
          get_transactions_by_type(transactions["app"], type))

\* the process ends and a new one builds its TransactionLogger:
\* __init__ sets the empty list and loads the resource
Restart(read_ok) ==
    /\ last = Idle
    /\ transactions' = [transactions EXCEPT
                          !["app"] = load_transactions(<<>>, log_file, read_ok)]
    /\ last' = LedgerOp("restart", "ana", "none")
    /\ UNCHANGED <<vacation_days, employees, log_file, policies, policy_keys, policies_file, clock,
                   created, answer>>

InitLedger ==
    /\ vacation_days = [w \in Workers |-> DEFAULT_VACATION_DAYS]
    /\ employees = <<>>
    /\ transactions = [lg \in Loggers |-> <<>>]
    /\ log_file = NoFile
    /\ policies = <<>>
    /\ policy_keys = <<>>
    /\ policies_file = NoPoliciesFile
    /\ clock = 0
    /\ created = <<>>
    /\ answer = <<>>
    /\ last = Idle

NextLedger ==
    \/ \E w \in LedgerWorkers, wr \in WriteOutcomes : LogVacation(w, wr)
    \/ \E w \in PaidWorkers, wr \in WriteOutcomes : LogPayment(w, wr)
    \/ \E limit \in RecentLimits : GetRecentTransactions(limit)
    \/ \E name \in HistoryNames : GetEmployeeHistory(name)
    \/ \E type \in TransactionTypes : GetTransactionsByType(type)
    \/ \E read_ok \in BOOLEAN : Restart(read_ok)
    \/ \E t \in Timestamps : Tick(t)
    \/ Continue

SpecLedger == InitLedger /\ [][NextLedger]_vars

----------------------------------------------------------------------------
(* Claims about the ledger, checked under SpecLedger *)

IsPrefix(a, b) == Len(a) <= Len(b) /\ SubSeq(b, 1, Len(a)) = a

Range(seq) == {seq[i] : i \in 1..Len(seq)}

Count(e, seq) == Cardinality({i \in 1..Len(seq) : seq[i] = e})

\* the same entries, each as often, in whatever order
SameEntries(a, b) ==
    /\ Len(a) = Len(b)
    /\ \A e \in Range(a) \cup Range(b) : Count(e, a) = Count(e, b)

LoggingOps == {"log_vacation", "log_payment"}
QueryOps == {"get_recent_transactions", "get_employee_history",
             "get_transactions_by_type"}

\* C8: across log_vacation, log_payment and the queries the in-memory list
\* only grows by one entry appended at the end: every earlier entry keeps
\* its position and all of its fields
C8_EntriesNeverChange ==
    [][/\ last'.op \in LoggingOps
            => /\ IsPrefix(transactions["app"], transactions'["app"])
               /\ Len(transactions'["app"]) = Len(transactions["app"]) + 1
       /\ last'.op \in QueryOps => transactions' = transactions]_vars

\* a payment is logged behind a leave entry recorded before it
C8_Witness ==
    /\ last.op = "log_payment"
    /\ last.len_before >= 1
    /\ Len(transactions["app"]) = last.len_before + 1
    /\ transactions["app"][1].transaction_type = "vacation"

\* C9 as stated: the persisted collection is never truncated: whenever an
\* append has written the resource, also after a restart, the entries that
\* were persisted before are a prefix of the persisted collection
C9_NeverTruncated ==
    [][(last'.op \in LoggingOps /\ last'.wrote = "ok")
            => IsPrefix(PersistedEntries(log_file),
                        PersistedEntries(log_file'))]_vars

\* C10 as stated: get_recent_transactions(n) returns the n entries recorded
\* last (all of them when there are fewer), the newest first
C10_RecentAreLastRecorded ==
    last.op = "get_recent_transactions"
        => LET txs == transactions["app"]
               k == IF last.days < Len(txs) THEN last.days ELSE Len(txs)
           IN  /\ SameEntries(answer, SubSeq(txs, Len(txs) - k + 1, Len(txs)))
               /\ \A i, j \in 1..Len(answer) :
                    i < j => answer[i].timestamp >= answer[j].timestamp


\* the positions of the entries of txs whose field has the value
Matching(txs, field, value) == {i \in 1..Len(txs) : txs[i][field] = value}

\* the k-th smallest member of a set of positions
KthOf(S, k) == CHOOSE i \in S : Cardinality({j \in S : j <= i}) = k

\* ans holds the entries of txs at the matching positions, one for one, in
\* the order of the positions
IsFiltered(ans, txs, field, value) ==
    LET S == Matching(txs, field, value)
    IN  /\ Len(ans) = Cardinality(S)
        /\ \A k \in 1..Len(ans) : ans[k] = txs[KthOf(S, k)]

\* C11: get_employee_history and get_transactions_by_type return exactly the
\* entries whose worker name, respectively kind, equals the argument, none
\* missing and no others, in the order in which they were recorded.
C11_FiltersExactInOrder ==
    /\ last.op = "get_employee_history"
          => IsFiltered(answer, transactions["app"], "employee_name", last.w)
    /\ last.op = "get_transactions_by_type"
          => IsFiltered(answer, transactions["app"], "transaction_type",
                        last.w)

\* the history of Ana on a ledger whose first entry is Vic's: the answer is
\* the second entry alone
C11_Witness ==
    /\ last.op = "get_employee_history"
    /\ last.w = "Ana"
    /\ Len(transactions["app"]) = 2
    /\ transactions["app"][1].employee_name = "Vic"
    /\ answer = <<transactions["app"][2]>>

\* C12: when the save fails during log_vacation or log_payment, the caller
\* of the append learns that the write did not succeed, and the new entry
\* stays in the in-memory ledger.
C12_SaveFailureReported ==
    (last.op \in LoggingOps /\ last.wrote # "ok")
        => /\ last.result # "ok"
           /\ Len(transactions["app"]) = last.len_before + 1

----------------------------------------------------------------------------
(* The application as wired by main(): the leave manager is built with one   *)
(* TransactionLogger, EmployeeManagementApp.__init__ builds another for the  *)
(* pay run and the history views; both are bound to transaction_history.json *)

\* the workers the menu creates
AppWorkers == {"ana", "vic", "ivan"}
\* the days the menu asks for
AppDays == {3, 12}

\* EmployeeManagementApp._create_employee with valid input
CreateEmployee(w) ==
    /\ last = Idle
    /\ Len(employees) < MaxEmployees
    /\ w \notin Range(employees)
    /\ employees' = Append(employees, w)
    /\ last' = Op("create_employee", w, FALSE, 0, "ok", vacation_days[w],
                  Len(transactions["app"]), "none")
    /\ UNCHANGED <<vacation_days, transactions, log_file, policies, policy_keys, policies_file, clock,
                   created, answer>>

\* the requests _grant_vacation turns away with a message before it reaches
\* the leave manager
RefusedAtMenu(w, payout) ==
    \/ Employee(w).type = "freelancer"
    \/ Employee(w).role = "intern"
    \/ payout /\ ~GetVacationPolicy(Employee(w).role).payout_allowed

\* EmployeeManagementApp._grant_vacation for a listed worker
GrantVacation(w, payout, days, wr) ==
    /\ w \in Range(employees)
    /\ IF RefusedAtMenu(w, payout)
       THEN /\ last = Idle
            /\ wr = "ok"
            /\ last' = Op("grant_vacation", w, payout, days, "rejected",
                          vacation_days[w],
                          Len(transactions["vacation_manager"]), "none")
            /\ UNCHANGED <<vacation_days, employees, transactions, log_file,
                           policies, policy_keys, policies_file, clock, created, answer>>
       ELSE TakeVacation("vacation_manager", w, payout, days, wr)

\* EnhancedPayrollService.pay_all_employees
PayAllEmployees(wr) ==
    LET start == [txs |-> transactions["app"], file |-> log_file,
                  total_payroll |-> 0, shown |-> <<>>]
        run == PayLoop(start, employees, Len(employees), policies, clock, wr)
        new == SubSeq(run.txs, Len(start.txs) + 1, Len(run.txs))
    IN  /\ last = Idle
        /\ Len(run.txs) <= MaxLedger
        /\ IF employees = <<>>
           THEN /\ wr = "ok"
                /\ answer' = <<"No employees to pay.">>
                /\ UNCHANGED <<transactions, log_file, created>>
           ELSE /\ transactions' = [transactions EXCEPT !["app"] = run.txs]
                /\ log_file' = run.file
                /\ created' = created \o new
                /\ answer' = Append(run.shown,
                                    <<"Total Payroll", run.total_payroll>>)
        /\ last' = Op("pay_all_employees", "ana", FALSE, 0, "ok", 0,
                      Len(transactions["app"]),
                      IF new = <<>> THEN "none" ELSE wr)
        /\ UNCHANGED <<vacation_days, employees, policies, policy_keys, policies_file, clock>>

\* EmployeeManagementApp._show_recent_transactions
ShowRecentTransactions ==
    /\ last = Idle
    /\ answer' = get_recent_transactions(transactions["app"], 10)
    /\ last' = Op("show_recent_transactions", "ana", FALSE, 10, "ok", 0,
                  Len(transactions["app"]), "none")
    /\ UNCHANGED <<vacation_days, employees, transactions, log_file, policies, policy_keys, policies_file,
                   clock, created>>

\* main() on a machine where neither resource exists yet: both ledgers load
\* empty, the pay policies are the defaults
\* (datetime.now() is held at one value throughout this specification)
InitApp ==
    /\ vacation_days = [w \in Workers |-> DEFAULT_VACATION_DAYS]
    /\ employees = <<>>
    /\ transactions =
         [lg \in Loggers |-> load_transactions(<<>>, NoFile, TRUE)]
    /\ log_file = NoFile
    /\ policies = DefaultPolicies
    /\ policy_keys = DefaultKeys
    /\ policies_file = save_policies(NoPoliciesFile, DefaultPolicies,
                                     DefaultKeys, "ok")
    /\ clock = 0
    /\ created = <<>>
    /\ answer = <<>>
    /\ last = Idle

NextApp ==
    \/ \E w \in AppWorkers : CreateEmployee(w)
    \/ \E w \in AppWorkers, payout \in BOOLEAN, days \in AppDays :
            GrantVacation(w, payout, days, "ok")
    \/ PayAllEmployees("ok")
    \/ ShowRecentTransactions
    \/ Continue

SpecApp == InitApp /\ [][NextApp]_vars

\* C7: after any interleaving of successful leave requests and pay runs in
\* the application, the persisted ledger holds every leave entry and every
\* payment entry created so far, and so does the ledger queried for history.
C7_LedgerIsUnion ==
    \A i \in 1..Len(created) :
        /\ created[i] \in Range(PersistedEntries(log_file))
        /\ created[i] \in Range(transactions["app"])


----------------------------------------------------------------------------
(* PaymentPolicyManager: the store of pay policies and its resource *)

\* _policies[key] = policy on the dict with its key order: a new key goes
\* to the end, a key already there keeps its place
PutPolicy(store, key, policy) ==
    [policies |-> [k \in DOMAIN store.policies \cup {key} |->
                     IF k = key THEN policy ELSE store.policies[k]],
     keys |-> IF key \in DOMAIN store.policies THEN store.keys
              ELSE Append(store.keys, key)]

\* PaymentPolicy(**policy_data)
PolicyFromData(policy_data) == [f \in PolicyFields |-> policy_data[f]]

\* the loop of _load_policies over the first n records of the resource:
\* each policy is stored under its own employee_type
RECURSIVE LoadRecords(_, _, _)
LoadRecords(store, data, n) ==
    IF n = 0 THEN store
    ELSE LET policy == PolicyFromData(data[n])
         IN  PutPolicy(LoadRecords(store, data, n - 1), policy.employee_type,
                       policy)

\* self._policies.update(default_policies) for the first n default keys
RECURSIVE PutDefaults(_, _)
PutDefaults(store, n) ==
    IF n = 0 THEN store
    ELSE PutPolicy(PutDefaults(store, n - 1), DefaultKeys[n],
                   DefaultPolicies[DefaultKeys[n]])

\* the defaults are put into the dict and nothing is written
create_default_policies_unsaved(store, file, wr) ==
    LET after == PutDefaults(store, Len(DefaultKeys))
    IN  [policies |-> after.policies, keys |-> after.keys, file |-> file,
         result |-> "defaults"]

\* _create_default_policies: the defaults are put into the dict and the
\* whole dict is written to the resource
create_default_policies(store, file, wr) ==
    LET after == PutDefaults(store, Len(DefaultKeys))
    IN  [policies |-> after.policies, keys |-> after.keys,
         file |-> save_policies(file, after.policies, after.keys, wr),
         result |-> "defaults"]

\* _load_policies: read_ok is whether open() and json.load() raise nothing
\* on a well-formed resource, wr the outcome of the write of the defaults
load_policies(store, file, read_ok, wr) ==
    IF file.state = "absent" THEN create_default_policies(store, file, wr)
    ELSE IF read_ok /\ file.state = "ok"
    THEN LET after == LoadRecords(store, file.data, Len(file.data))
         IN  [policies |-> after.policies, keys |-> after.keys,
              file |-> file, result |-> "loaded"]
    ELSE create_default_policies(store, file, wr)

\* every policy field is replaced by the defaults of the dataclass unless
\* it is named
ApplyChanges_reset(policy, changes) ==
    [f \in DOMAIN policy |->
        IF f \in DOMAIN changes THEN changes[f]
        ELSE PaymentPolicy(policy.employee_type, policy.base_rate, 150, 0, 40,
                           100, 100, 0, 0, 0)[f]]

\* the loop of update_policy over kwargs: setattr for the names the policy
\* has, nothing for the others
ApplyChanges(policy, changes) ==
    [f \in DOMAIN policy |->
        IF f \in DOMAIN changes THEN changes[f] ELSE policy[f]]

\* a change named employee_type is applied like any other
update_policy_retyped(pols, employee_type, changes) ==
    IF employee_type \notin DOMAIN pols
    THEN [result |-> "error", policies |-> pols]
    ELSE [result |-> "ok",
          policies |-> [pols EXCEPT ![employee_type] =
                          ApplyChanges(pols[employee_type], changes)]]

\* PaymentPolicyManager.update_policy: the dict after, or the error raised.
\* A keyword named employee_type collides with the parameter of that name:
\* the call raises TypeError before the body runs; an unknown key raises
\* ValueError
update_policy(pols, employee_type, changes) ==
    IF "employee_type" \in DOMAIN changes \/ employee_type \notin DOMAIN pols
    THEN [result |-> "error", policies |-> pols]
    ELSE [result |-> "ok",
          policies |-> [pols EXCEPT ![employee_type] =
                          ApplyChanges(pols[employee_type], changes)]]


\* the keys the operations are addressed to
PolicyKeys == {"salaried", "hourly", "freelancer", "contractor"}

\* the field changes an update asks for
PolicyChanges ==
    {[bonus_percentage |-> 15],
     [employee_type |-> "salaried"],
     [overtime_multiplier |-> 200, bonus_amount |-> 5]}

\* a resource written by hand: the salaried policy alone
HandWrittenFile ==
    [state |-> "ok",
     data |-> <<PolicyData([DefaultPolicies.salaried EXCEPT
                              !.bonus_percentage = 20])>>]

\* what the resource may hold when the store is constructed, and what an
\* editor of the resource may leave in it
EditedFiles ==
    {NoPoliciesFile, HandWrittenFile, [state |-> "malformed", data |-> <<>>]}

\* the roles get_policy of the leave policies is asked for
AskedRoles == {"manager", "contractor"}

\* the outcomes of a write of the resource that are followed
PolicyWriteOutcomes == {"ok", "write_failed"}

\* the record of an operation on a policy store kept in last
PolicyOp(op, key, changes, result, read, wrote) ==
    [op |-> op, key |-> key, changes |-> changes, result |-> result,
     read |-> read, wrote |-> wrote]

\* how the read of the resource by _load_policies went
ReadOutcome(file, read_ok) ==
    IF file.state = "absent" THEN "none"
    ELSE IF read_ok /\ file.state = "ok" THEN "ok" ELSE "failed"

\* PaymentPolicyManager.get_policy called by a client
GetPolicy(employee_type) ==
    LET got == get_policy(policies, employee_type)
    IN  /\ last = Idle
        /\ answer' = got
        /\ last' = PolicyOp("get_policy", employee_type, <<>>, got.result,
                            "none", "none")
        /\ UNCHANGED <<vacation_days, employees, transactions, log_file,
                       policies, policy_keys, policies_file, clock, created>>

\* PaymentPolicyManager.update_policy(employee_type, **changes)
UpdatePolicy(employee_type, changes, wr) ==
    LET out == update_policy(policies, employee_type, changes)
    IN  /\ last = Idle
        /\ policies' = out.policies
        /\ IF out.result = "ok"
           THEN policies_file' =
                    save_policies(policies_file, out.policies, policy_keys, wr)
           ELSE wr = "ok" /\ UNCHANGED policies_file
        /\ last' = PolicyOp("update_policy", employee_type, changes,
                            out.result, "none",
                            IF out.result = "ok" THEN wr ELSE "none")
        /\ UNCHANGED <<vacation_days, employees, transactions, log_file,
                       policy_keys, clock, created, answer>>

\* PaymentPolicyManager.reload_policies, by a client that is idle or has
\* just updated a policy
ReloadPolicies(read_ok, wr) ==
    LET out == load_policies([policies |-> policies, keys |-> policy_keys],
                             policies_file, read_ok, wr)
    IN  /\ last = Idle \/ last.op = "update_policy"
        /\ out.result = "loaded" => wr = "ok"
        /\ policies_file.state # "ok" => read_ok
        /\ policies' = out.policies
        /\ policy_keys' = out.keys
        /\ policies_file' = out.file
        /\ last' = PolicyOp("reload_policies", "", <<>>, out.result,
                            ReadOutcome(policies_file, read_ok),
                            IF out.result = "loaded" THEN "none" ELSE wr)
        /\ UNCHANGED <<vacation_days, employees, transactions, log_file,
                       clock, created, answer>>

\* the resource is edited, replaced or removed from outside the program
EditPoliciesFile(file) ==
    /\ last = Idle
    /\ file # policies_file
    /\ policies_file' = file
    /\ last' = PolicyOp("edit_policies_file", "", <<>>, "ok", "none", "none")
    /\ UNCHANGED <<vacation_days, employees, transactions, log_file,
                   policies, policy_keys, clock, created, answer>>

\* VacationPolicyManager.get_policy called by a client
GetLeavePolicy(role) ==
    /\ last = Idle
    /\ answer' = GetVacationPolicy(role)
    /\ last' = PolicyOp("get_leave_policy", role, <<>>, "ok", "none", "none")
    /\ UNCHANGED <<vacation_days, employees, transactions, log_file,
                   policies, policy_keys, policies_file, clock, created>>

\* PaymentPolicyManager(): the empty dict, then _load_policies on what the
\* resource holds
InitPolicies ==
    \E file \in EditedFiles, read_ok \in BOOLEAN,
       wr \in PolicyWriteOutcomes :
        LET out == load_policies([policies |-> <<>>, keys |-> <<>>], file,
                                 read_ok, wr)
        IN  /\ out.result = "loaded" => wr = "ok"
            /\ file.state # "ok" => read_ok
            /\ policies = out.policies
            /\ policy_keys = out.keys
            /\ policies_file = out.file
            /\ vacation_days = [w \in Workers |-> DEFAULT_VACATION_DAYS]
            /\ employees = <<>>
            /\ transactions = [lg \in Loggers |-> <<>>]
            /\ log_file = NoFile
            /\ clock = 0
            /\ created = <<>>
            /\ answer = <<>>
            /\ last = PolicyOp("load_policies", "", <<>>, out.result,
                               ReadOutcome(file, read_ok),
                               IF out.result = "loaded" THEN "none" ELSE wr)

NextPolicies ==
    \/ \E key \in PolicyKeys : GetPolicy(key)
    \/ \E key \in PolicyKeys, changes \in PolicyChanges,
          wr \in PolicyWriteOutcomes : UpdatePolicy(key, changes, wr)
    \/ \E read_ok \in BOOLEAN, wr \in PolicyWriteOutcomes :
            ReloadPolicies(read_ok, wr)
    \/ \E file \in EditedFiles : EditPoliciesFile(file)
    \/ \E role \in AskedRoles : GetLeavePolicy(role)
    \/ Continue

SpecPolicies == InitPolicies /\ [][NextPolicies]_vars


----------------------------------------------------------------------------
(* Claims about the policy stores, checked under SpecPolicies *)

\* C13: a pay-policy operation on a key with no registered policy fails:
\* get_policy raises and returns no policy, update_policy raises, changes no
\* in-memory policy and does not write the resource.
C13_UnknownKeyFails ==
    [][/\ (last'.op = "get_policy" /\ last'.key \notin DOMAIN policies)
            => answer' = [result |-> "error"]
       /\ (last'.op = "update_policy" /\ last'.key \notin DOMAIN policies)
            => /\ last'.result = "error"
               /\ policies' = policies
               /\ policies_file' = policies_file]_vars

\* update_policy on hourly fails in a store loaded from a resource that
\* holds the salaried policy alone
C13_Witness ==
    /\ last.op = "update_policy"
    /\ last.key = "hourly"
    /\ last.result = "error"
    /\ DOMAIN policies = {"salaried"}

\* C14: get_policy of the leave policies fails when no leave policy is
\* registered for the role; it never answers with another role's policy.
C14_UnknownRoleFails ==
    (last.op = "get_leave_policy" /\ last.key \notin DOMAIN VacationPolicies)
        => /\ last.result = "error"
           /\ \A r \in DOMAIN VacationPolicies : answer # VacationPolicies[r]

\* C15: update_policy with a change that names a field the policy does not
\* have fails; it does not ignore the field and end normally.
C15_UnknownFieldFails ==
    (/\ last.op = "update_policy"
     /\ \E f \in DOMAIN last.changes : f \notin PolicyFields)
        => last.result = "error"

\* C16: update_policy on a registered key sets exactly the named fields of
\* that key's policy to the given values: every other field keeps its value
\* and the policies of all other keys are unchanged.
C16_UpdateChangesNamedFields ==
    [][(last'.op = "update_policy" /\ last'.result = "ok")
        => /\ DOMAIN policies' = DOMAIN policies
           /\ \A k \in DOMAIN policies \ {last'.key} :
                  policies'[k] = policies[k]
           /\ \A f \in PolicyFields :
                  policies'[last'.key][f] =
                      IF f \in DOMAIN last'.changes THEN last'.changes[f]
                      ELSE policies[last'.key][f]]_vars

\* the salaried bonus_percentage has been updated to 15
C16_Witness ==
    /\ last.op = "update_policy"
    /\ last.key = "salaried"
    /\ last.changes = [bonus_percentage |-> 15]
    /\ last.result = "ok"
    /\ policies["salaried"].bonus_percentage = 15
    /\ policies["salaried"].performance_bonus_threshold = 80


\* C17: for every registered key and every set of field changes, after
\* update_policy followed by reload_policies the in-memory policy set is
\* equal, key by key and field by field, to the set held just before the
\* reload.
C17_UpdateReloadRoundTrip ==
    [][(/\ last.op = "update_policy"
        /\ last.result = "ok"
        /\ last'.op = "reload_policies")
        => policies' = policies]_vars

LoadOps == {"load_policies", "reload_policies"}

\* the policies a reader finds in the resource: the records by employee_type
\* (of two records of one employee_type the later one counts)
PoliciesInFile(file) ==
    LET types == {file.data[i].employee_type : i \in 1..Len(file.data)}
        lastOf(t) == CHOOSE i \in 1..Len(file.data) :
                        /\ file.data[i].employee_type = t
                        /\ \A j \in (i + 1)..Len(file.data) :
                              file.data[j].employee_type # t
    IN  [t \in types |-> file.data[lastOf(t)]]

\* C18: after reload_policies on a readable, well-formed resource the
\* in-memory policy set equals the set of policies in the resource: no key
\* and no field value survives that the resource does not contain.
C18_ReloadDiscardsMemory ==
    (last.op = "reload_policies" /\ last.read = "ok")
        => /\ DOMAIN policies = DOMAIN PoliciesInFile(policies_file)
           /\ \A k \in DOMAIN policies :
                \A f \in PolicyFields :
                    policies[k][f] = PoliciesInFile(policies_file)[k][f]

\* the three default policies are in the store
HoldsDefaults ==
    \A k \in {"salaried", "hourly", "freelancer"} :
        /\ k \in DOMAIN policies
        /\ policies[k] = DefaultPolicies[k]

\* the resource holds one record with all ten fields for each in-memory
\* policy, equal to it in every field, and nothing else
IsSnapshot ==
    /\ policies_file.state = "ok"
    /\ Len(policies_file.data) = Cardinality(DOMAIN policies)
    /\ \A k \in DOMAIN policies :
          \E i \in 1..Len(policies_file.data) :
              /\ DOMAIN policies_file.data[i] = PolicyFields
              /\ \A f \in PolicyFields :
                    policies_file.data[i][f] = policies[k][f]

C20_ResourceIsSnapshot ==
    (\/ last.op = "update_policy" /\ last.result = "ok"
     \/ last.op \in LoadOps /\ last.result = "defaults")
        => IsSnapshot


----------------------------------------------------------------------------
(* The pay computations: the calculators of the registry, the breakdown of   *)
(* the pay run and pay_all_employees, over workers and policy sets drawn     *)
(* from the sets below                                                       *)

\* a resource with policies other than the defaults: no salaried bonus
\* percentage, another ceiling and other multipliers for hourly workers
TunedFile ==
    [state |-> "ok",
     data |-> <<PolicyData(PaymentPolicy("salaried", 500000, 150, 0, 40, 100,
                                         100, 0, 80, 5)),
                PolicyData(PaymentPolicy("hourly", 5000, 200, 0, 45, 200, 125,
                                         200, 0, 0)),
                PolicyData(PaymentPolicy("freelancer", 0, 150, 15, 40, 100,
                                         100, 0, 90, 10))>>]

\* what the policy resource holds when the store is constructed
PayFiles == {NoPoliciesFile, TunedFile, HandWrittenFile}

SalariedInputs ==
    {[name |-> "Sal", role |-> r, type |-> "salaried",
      performance_rating |-> p, monthly_salary |-> m] :
        r \in {"manager", "intern"}, p \in {50, 100},
        m \in {300000, 500000, 5409400}}

HourlyInputs ==
    {[name |-> "Hal", role |-> r, type |-> "hourly",
      performance_rating |-> 100, hourly_rate |-> 5000, hours_worked |-> h,
      night_shift_hours |-> sp[1], weekend_hours |-> sp[2],
      holiday_hours |-> sp[3]] :
        r \in {"manager", "intern"}, h \in {0, 40, 160, 161, 180},
        sp \in {<<0, 0, 0>>, <<2, 4, 1>>}}

FreelancerInputs ==
    {[name |-> "Fay", role |-> r, type |-> "freelancer",
      performance_rating |-> p, projects |-> ps] :
        r \in {"manager", "intern"}, p \in {50, 100},
        ps \in {<<>>, <<100000, 150000>>, <<184061, 253928>>}}

\* an Employee that is of none of the three subclasses
OtherInputs == {Employee("otto")}

EmployeeInputs ==
    SalariedInputs \cup HourlyInputs \cup FreelancerInputs \cup OtherInputs

\* the workers a repository may hold for a pay run
PayRunWorkers == {"ana", "vic", "ines", "otto"}

\* the lists of up to MaxEmployees different workers
PayRunLists ==
    UNION {{list \in [1..k -> PayRunWorkers] :
                \A i, j \in 1..k : list[i] = list[j] => i = j} :
           k \in 0..MaxEmployees}

\* the record of a pay computation kept in last
PayOp(op, emp, result) == [op |-> op, employee |-> emp, result |-> result]

\* PayrollCalculatorRegistry.calculate_pay(employee)
CalculatePay(emp) ==
    LET out == registry_calculate_pay(emp, policies)
    IN  /\ last = Idle
        /\ answer' = out
        /\ last' = PayOp("calculate_pay", emp, out.result)
        /\ UNCHANGED <<vacation_days, employees, transactions, log_file,
                       policies, policy_keys, policies_file, clock, created>>

\* EnhancedPayrollService._calculate_detailed_pay(employee)
CalculateDetailedPay(emp) ==
    LET out == calculate_detailed_pay(emp, policies)
    IN  /\ last = Idle
        /\ answer' = out
        /\ last' = PayOp("calculate_detailed_pay", emp, out.result)
        /\ UNCHANGED <<vacation_days, employees, transactions, log_file,
                       policies, policy_keys, policies_file, clock, created>>

\* a payroll service on a repository that holds a list of workers, a store
\* of pay policies loaded from its resource and an empty ledger
InitPay ==
    \E file \in PayFiles, list \in PayRunLists :
        LET out == load_policies([policies |-> <<>>, keys |-> <<>>], file,
                                 TRUE, "ok")
        IN  /\ policies = out.policies
            /\ policy_keys = out.keys
            /\ policies_file = out.file
            /\ employees = list
            /\ vacation_days = [w \in Workers |-> DEFAULT_VACATION_DAYS]
            /\ transactions = [lg \in Loggers |-> <<>>]
            /\ log_file = NoFile
            /\ clock = 0
            /\ created = <<>>
            /\ answer = <<>>
            /\ last = Idle

NextPay ==
    \/ \E emp \in EmployeeInputs : CalculatePay(emp)
    \/ \E emp \in EmployeeInputs : CalculateDetailedPay(emp)
    \/ \E wr \in {"ok", "write_failed"} : PayAllEmployees(wr)
    \/ Continue

SpecPay == InitPay /\ [][NextPay]_vars


----------------------------------------------------------------------------
(* Claims about the pay computations, checked under SpecPay *)

\* get_policy raises for the type of worker w
CalculationFails(w) ==
    /\ Employee(w).type \in {"salaried", "hourly", "freelancer"}
    /\ Employee(w).type \notin DOMAIN policies

\* the entries the last pay run added to the ledger
NewPayments ==
    SubSeq(transactions["app"], last.len_before + 1, Len(transactions["app"]))

\* the amounts of a list of entries
Amounts(entries) == [i \in 1..Len(entries) |-> entries[i].amount]

\* C21: in a pay run a worker whose calculation fails is reported, gets no
\* payment entry and adds nothing to the payroll total; every other worker
\* of the run is paid and gets exactly one payment entry.
C21_FailedWorkerSkipped ==
    (last.op = "pay_all_employees" /\ employees # <<>>)
        => LET fails(w) == CalculationFails(w)
               pays(w) == ~CalculationFails(w)
               paid == SelectSeq(employees, pays)
               failed == SelectSeq(employees, fails)
           IN  /\ Len(NewPayments) = Len(paid)
               /\ \A i \in 1..Len(paid) :
                     /\ NewPayments[i].employee_name = Employee(paid[i]).name
                     /\ NewPayments[i].transaction_type = "payment"
               /\ \A i \in 1..Len(failed) :
                     <<"Error paying", Employee(failed[i]).name>>
                         \in Range(answer)
               /\ answer[Len(answer)] =
                     <<"Total Payroll", Sum(Amounts(NewPayments))>>

\* a run over Vic and Ana with no hourly policy: Vic is reported, Ana is paid
C21_Witness ==
    /\ last.op = "pay_all_employees"
    /\ employees = <<"vic", "ana">>
    /\ "hourly" \notin DOMAIN policies
    /\ <<"Error paying", "Vic">> \in Range(answer)
    /\ Len(NewPayments) = 1
    /\ NewPayments[1].employee_name = "Ana"

\* C22: calculate_pay fails for a worker whose type has no calculator in the
\* registry, and paying such a worker is reported as an error and yields no
\* amount.
C22_UnregisteredTypeIsError ==
    /\ (last.op = "calculate_pay"
        /\ last.employee.type \notin {"salaried", "hourly", "freelancer"})
          => answer.result = "error"
    /\ last.op = "pay_all_employees"
          => \A i \in 1..Len(employees) :
                Employee(employees[i]).type
                        \notin {"salaried", "hourly", "freelancer"}
                    => /\ <<"Error paying", Employee(employees[i]).name>>
                            \in Range(answer)
                       /\ \A j \in 1..Len(NewPayments) :
                            NewPayments[j].employee_name
                                # Employee(employees[i]).name


\* the last operation is calculate_pay of the registry on a worker of the
\* type, and it returned an amount
Calculated(type) ==
    /\ last.op = "calculate_pay"
    /\ last.employee.type = type
    /\ answer.result = "ok"

\* C23: for an hourly worker regular_hours = min(hours_worked, ceiling),
\* overtime_hours = max(0, hours_worked - ceiling), the two add up to
\* hours_worked; the flat bonus is added exactly when hours_worked > 160 and
\* the role is not intern; and the total is regular*rate +
\* overtime*rate*overtime_multiplier + bonus + weekend_hours*rate*
\* weekend_multiplier + holiday_hours*rate*holiday_multiplier +
\* night_hours*night_shift_bonus.
C23_HourlyTotal ==
    Calculated("hourly")
        => LET emp == last.employee
               policy == policies["hourly"]
               ceiling == policy.max_hours_per_week
               regular == IF emp.hours_worked < ceiling THEN emp.hours_worked
                          ELSE ceiling
               overtime == IF emp.hours_worked > ceiling
                           THEN emp.hours_worked - ceiling ELSE 0
               bonus == IF emp.hours_worked > 160 /\ emp.role # "intern"
                        THEN 10000 ELSE 0
               rate == emp.hourly_rate
           IN  /\ regular + overtime = emp.hours_worked
               /\ answer.amount =
                    Add(Add(Add(Add(Add(
                        Times(regular, rate),
                        Percent(Times(overtime, rate),
                                policy.overtime_multiplier)),
                        bonus),
                        Percent(Times(emp.weekend_hours, rate),
                                policy.weekend_pay_multiplier)),
                        Percent(Times(emp.holiday_hours, rate),
                                policy.holiday_pay_multiplier)),
                        Times(emp.night_shift_hours, policy.night_shift_bonus))

\* the manager at rate 50 with 180 hours, ceiling 40, multiplier 1.5 and no
\* special hours is paid 12600
C23_Witness ==
    /\ Calculated("hourly")
    /\ last.employee.role = "manager"
    /\ last.employee.hourly_rate = 5000
    /\ last.employee.hours_worked = 180
    /\ last.employee.weekend_hours = 0
    /\ policies["hourly"].max_hours_per_week = 40
    /\ policies["hourly"].overtime_multiplier = 150
    /\ answer.amount = 1260000

\* C24: for a salaried worker the total is base + (10% of base unless the
\* role is intern) + (performance_bonus_percentage% of base if the rating
\* reaches the threshold) + bonus_percentage% of base.
C24_SalariedTotal ==
    Calculated("salaried")
        => LET emp == last.employee
               policy == policies["salaried"]
               base == emp.monthly_salary
               flat == IF emp.role # "intern" THEN Percent(base, 10) ELSE 0
               extra ==
                   IF emp.performance_rating
                        >= policy.performance_bonus_threshold
                   THEN Percent(base, policy.performance_bonus_percentage)
                   ELSE 0
           IN  answer.amount =
                   Add(Add(Add(base, flat), extra),
                       Percent(base, policy.bonus_percentage))

\* the manager with base 5000, a rating under the threshold and a policy
\* bonus percentage of zero is paid 5500
C24_Witness ==
    /\ Calculated("salaried")
    /\ last.employee.role = "manager"
    /\ last.employee.monthly_salary = 500000
    /\ last.employee.performance_rating
          < policies["salaried"].performance_bonus_threshold
    /\ policies["salaried"].bonus_percentage = 0
    /\ answer.amount = 550000

\* C25: for a freelancer the total is S + (performance_bonus_percentage% of
\* S if the rating reaches the threshold) + bonus_percentage% of S, S the sum
\* of the project amounts; without projects the total is 0 and nothing is
\* raised.
C25_FreelancerTotal ==
    /\ (last.op = "calculate_pay" /\ last.employee.type = "freelancer"
        /\ "freelancer" \in DOMAIN policies)
          => answer.result = "ok"
    /\ Calculated("freelancer")
          => LET emp == last.employee
                 policy == policies["freelancer"]
                 S == Sum(emp.projects)
                 extra ==
                   IF emp.performance_rating
                        >= policy.performance_bonus_threshold
                   THEN Percent(S, policy.performance_bonus_percentage)
                   ELSE 0
             IN  /\ answer.amount =
                        Add(Add(S, extra), Percent(S, policy.bonus_percentage))
                 /\ emp.projects = <<>> => answer.amount = 0

\* projects of 1000 and 1500, bonus 15% and a rating under the threshold
\* give 2875
C25_Witness ==
    /\ Calculated("freelancer")
    /\ last.employee.projects = <<100000, 150000>>
    /\ last.employee.performance_rating
          < policies["freelancer"].performance_bonus_threshold
    /\ policies["freelancer"].bonus_percentage = 15
    /\ answer.amount = 287500

\* C26: for every intern paid in a pay run the bonuses of the recorded
\* payment are zero.
C26_InternsGetNoBonus ==
    last.op = "pay_all_employees"
        => \A i \in 1..Len(NewPayments) :
              NewPayments[i].employee_role = "intern"
                  => NewPayments[i].bonuses = 0

\* C27: the total the pay run records for a worker equals the amount the
\* calculator of the registry returns for it, and equals base_pay + bonuses
\* + overtime + special_hours.
C27_TwoComputationsAgree ==
    (/\ last.op = "calculate_detailed_pay"
     /\ last.employee.type \in {"salaried", "hourly", "freelancer"}
     /\ answer.result = "ok")
        => /\ answer.total =
                registry_calculate_pay(last.employee, policies).amount
           /\ answer.total =
                Add(Add(Add(answer.base_pay, answer.bonuses),
                        answer.overtime), answer.special_hours)

----------------------------------------------------------------------------
(* Claims about requests with arbitrary integer days, checked under          *)
(* SpecLeave, and about the keys of the policy store, checked under          *)
(* SpecPolicies                                                              *)

\* C28: after any sequence of take_vacation requests with arbitrary integer
\* days, every worker's vacation_days is at most its initial value and every
\* recorded leave entry has days_taken >= 1.
C28_RequestsNeverIncrease ==
    /\ \A w \in Workers : vacation_days[w] <= InitialVacationDays(w)
    /\ \A i \in 1..Len(LastLedger) : LastLedger[i].days_taken >= 1

\* C29: in every reachable state of the policy store each policy is stored
\* under the key equal to its own employee_type.
C29_KeyIsEmployeeType ==
    \A k \in DOMAIN policies : policies[k].employee_type = k

\* an update of a registered key that names employee_type is refused and the
\* policy keeps its type
C29_Witness ==
    /\ last.op = "update_policy"
    /\ last.key \in DOMAIN policies
    /\ "employee_type" \in DOMAIN last.changes
    /\ last.changes.employee_type # last.key
    /\ last.result = "error"
    /\ policies[last.key].employee_type = last.key

\* C30: after construction or reload_policies, whatever the policy resource
\* holds, get_policy succeeds for 'salaried', 'hourly' and 'freelancer'.
C30_ThreeTypesAlwaysFound ==
    (last.op = "get_policy" /\ last.key \in {"salaried", "hourly", "freelancer"})
        => last.result = "ok"

====
